---------------------------- MODULE Spec2Model ----------------------------
(***************************************************************************)
(* Model of the plan parser, the security validator and the staged plan    *)
(* executor of src/main.py (ProjectArchitect and SecurityManager).         *)
(*                                                                         *)
(* Strings are sequences of one-character strings, so that lower(),        *)
(* strip(), startswith(), slicing, split() and substring containment are   *)
(* computed character by character as Python computes them.                *)
(***************************************************************************)
EXTENDS Integers, Sequences, FiniteSets, TLC

VARIABLES
    \* SecurityManager.validate_command called on its own
    command,            \* the command string handed to validate_command
    verdict,            \* the (valid, msg) tuple it returned, or None
    baseline,           \* the verdict returned for an earlier casing of the command
    \* ProjectArchitect
    execution_plan,     \* self.execution_plan: files, commands, dependencies
    \* ProjectArchitect._parse_plan
    doc,                \* the sections a well-formed reply was written from, or None
    response,           \* the text handed to _parse_plan
    parse_pc,           \* where _parse_plan stands
    lines,              \* response.split('\n')
    line_i,             \* lines the loop has gone through
    current_section,    \* "None", "files", "commands" or "dependencies"
    log,                \* the lines logged by logger.error in _parse_plan
    earlier,            \* the parses that have returned: their text and their plan
    \* ProjectArchitect._confirm_and_execute
    confirmed,          \* the answer to "Proceed with project creation?", or None
    shown,              \* the panels printed after _execute_plan, in order
    \* ProjectArchitect._execute_plan
    pc,                 \* where _execute_plan stands
    file_i,             \* files of the plan the Files loop has gone through
    dep_i,              \* dependencies the Dependencies loop has gone through
    cmd_i,              \* commands the Commands loop has gone through
    valid_msg,          \* (valid, msg) of the last validate_command call
    progress,           \* rich Progress: task -> [completed, total]
    result,             \* result.returncode of the last subprocess.run, or None
    error,              \* the message of the exception _execute_plan raised, or None
    \* the filesystem and the processes
    dirs,               \* directories created
    disk,               \* location -> content of the files written
    running,            \* the child processes running now, each the number of its spawn in trace
    \* what _execute_plan has done so far
    trace,              \* the writes, validate_command calls, spawns and returns, in order
    \* Deployer.deploy_project
    deploy_in,          \* project_path, whether it is a directory, and the two answers of the user
    deploy_pc,          \* where deploy_project stands
    deployment_commands, \* the list built by deploy_project
    deploy_i,           \* commands the loop has gone through
    deploy_error,       \* the message of the exception raised in deploy_project, or None
    deploy_trace,       \* the validate_command calls, spawns and returns of deploy_project, in order
    deploy_shown,       \* what deploy_project has printed, in order
    \* CommandInterface.run
    loop_pc,            \* where the loop of run stands
    command_line,       \* command: the line entered, stripped
    turns,              \* the prompts made so far
    project_config,     \* architect.project_config of the /create being handled, or None
    collected,          \* the name the user gave in the /create being handled, or None
    status_info,        \* self.status_info['last_created_project'], or None
    raised,             \* the exceptions and interrupts that reached the loop, in order
    console             \* what the except clauses of the loop have printed, in order

valVars == <<command, verdict, baseline>>

parseVars == <<doc, response, parse_pc, lines, line_i, current_section, log, earlier>>

deployVars == <<deploy_in, deploy_pc, deployment_commands, deploy_i, deploy_error, deploy_trace, deploy_shown>>

loopVars == <<loop_pc, command_line, turns, project_config, collected, status_info, raised, console>>

execVars == <<confirmed, shown, pc, file_i, dep_i, cmd_i, valid_msg, progress, result, error, dirs, disk, running, trace>>

vars == <<command, verdict, baseline, execution_plan, doc, response, parse_pc, lines, line_i, current_section, log, earlier, confirmed, shown, pc, file_i, dep_i, cmd_i, valid_msg, progress, result, error, dirs, disk, running, trace,
          deploy_in, deploy_pc, deployment_commands, deploy_i, deploy_error, deploy_trace, deploy_shown,
          loop_pc, command_line, turns, project_config, collected, status_info, raised, console>>

\* "no value yet" for a variable that holds a tuple or a string
None == <<>>

(***************************************************************************)
(* Python string primitives                                                *)
(***************************************************************************)
UpperCase == <<"A","B","C","D","E","F","G","H","I","J","K","L","M","N","O","P","Q","R","S","T","U","V","W","X","Y","Z">>

LowerCase == <<"a","b","c","d","e","f","g","h","i","j","k","l","m","n","o","p","q","r","s","t","u","v","w","x","y","z">>

\* the upper-case letters, each with its lower-case letter, and the converse
ToLower == [ch \in {UpperCase[k] : k \in 1..26} |-> LowerCase[CHOOSE k \in 1..26 : UpperCase[k] = ch]]

ToUpper == [ch \in {LowerCase[k] : k \in 1..26} |-> UpperCase[CHOOSE k \in 1..26 : LowerCase[k] = ch]]

IsUpper(ch) == ch \in DOMAIN ToLower

IsLower(ch) == ch \in DOMAIN ToUpper

\* str.lower() on one character
LowerCh(ch) == IF IsUpper(ch) THEN ToLower[ch] ELSE ch

\* str.upper() on one character
UpperCh(ch) == IF IsLower(ch) THEN ToUpper[ch] ELSE ch

\* str.lower()
lower(s) == [k \in 1..Len(s) |-> LowerCh(s[k])]

\* s.startswith(prefix)
startswith(s, prefix) == Len(s) >= Len(prefix) /\ SubSeq(s, 1, Len(prefix)) = prefix

\* s.find(sub): the 0-based index of the first occurrence of sub in s, or -1
RECURSIVE FindFrom(_, _, _)
FindFrom(s, sub, k) ==
    IF k + Len(sub) > Len(s) THEN -1
    ELSE IF SubSeq(s, k + 1, k + Len(sub)) = sub THEN k
    ELSE FindFrom(s, sub, k + 1)

find(s, sub) == FindFrom(s, sub, 0)

\* s[n:]
Slice(s, n) == SubSeq(s, n + 1, Len(s))

\* the characters str.strip() removes
Whitespace == {" ", "\t", "\n", "\r", "\f"}

RECURSIVE lstrip(_)
lstrip(s) == IF s # <<>> /\ Head(s) \in Whitespace THEN lstrip(Tail(s)) ELSE s

RECURSIVE rstrip(_)
rstrip(s) == IF s # <<>> /\ s[Len(s)] \in Whitespace THEN rstrip(SubSeq(s, 1, Len(s) - 1)) ELSE s

\* str.strip()
strip(s) == rstrip(lstrip(s))

\* s.split(sep): the pieces of s between the occurrences of sep, at least one
RECURSIVE split(_, _)
split(s, sep) ==
    LET at == find(s, sep)
    IN  IF at < 0 THEN <<s>>
        ELSE <<SubSeq(s, 1, at)>> \o split(Slice(s, at + Len(sep)), sep)

\* s.split(sep, 1): cut at the first occurrence of sep, if there is one
split1(s, sep) ==
    LET at == find(s, sep)
    IN  IF at < 0 THEN <<s>>
        ELSE <<SubSeq(s, 1, at), Slice(s, at + Len(sep))>>

\* Python's "sub in s"
In(sub, s) == find(s, sub) >= 0

(***************************************************************************)
(* SecurityManager                                                         *)
(***************************************************************************)
DANGEROUS_PATTERNS ==
    << <<"r","m"," ","-","r","f">>,
       <<"s","u","d","o">>,
       <<"c","h","m","o","d">>,
       <<"c","h","o","w","n">>,
       <<">"," ","/","d","e","v">>,
       <<"d","d">>,
       <<"m","k","f","s">>,
       <<"p","a","s","s","w","d">>,
       <<"m","v"," ","/","*">>,
       <<">"," ","/","d","e","v","/","s","d">> >>

\* the fixed parts of the two messages; a message is a sequence that starts
\* with its fixed part and goes on with the characters formatted into it
MsgDangerous == <<"Dangerous command detected: ">>

MsgValidated == <<"Command validated">>

\* a reason that leaves the command out
DangerousMsgNoCommand(cmd) == MsgDangerous

\* f"Dangerous command detected: {command}"
DangerousMsg(cmd) == MsgDangerous \o cmd

\* the test of one pattern against the command, without lower()
PatternMatchesNoLower(pattern, cmd) == In(pattern, cmd)

\* "pattern in command.lower()"
PatternMatches(pattern, cmd) == In(pattern, lower(cmd))

\* the loop of validate_command from pattern number k on
RECURSIVE ValidateFrom(_, _)
ValidateFrom(cmd, k) ==
    IF k > Len(DANGEROUS_PATTERNS) THEN <<TRUE, MsgValidated>>
    ELSE IF PatternMatches(DANGEROUS_PATTERNS[k], cmd) THEN <<FALSE, DangerousMsg(cmd)>>
    ELSE ValidateFrom(cmd, k + 1)

validate_command(cmd) == ValidateFrom(cmd, 1)

(***************************************************************************)
(* ProjectArchitect: the state after __init__, and the variables of an     *)
(* operation that is not running                                           *)
(***************************************************************************)
\* {"files": [], "commands": [], "dependencies": []}
EmptyPlan == [files |-> <<>>, commands |-> <<>>, dependencies |-> <<>>]

\* _execute_plan has not been called
ExecIdle ==
    /\ confirmed = None
    /\ shown = <<>>
    /\ pc = "start"
    /\ file_i = 0
    /\ dep_i = 0
    /\ cmd_i = 0
    /\ valid_msg = None
    /\ progress = <<>>
    /\ result = None
    /\ error = None
    /\ dirs = {}
    /\ disk = <<>>
    /\ running = {}
    /\ trace = <<>>

\* CommandInterface.run has not been called
LoopIdle ==
    /\ loop_pc = "idle"
    /\ command_line = None
    /\ turns = 0
    /\ project_config = None
    /\ collected = None
    /\ status_info = None
    /\ raised = <<>>
    /\ console = <<>>

\* deploy_project has not been called
DeployIdle ==
    /\ deploy_in = None
    /\ deploy_pc = "idle"
    /\ deployment_commands = <<>>
    /\ deploy_i = 0
    /\ deploy_error = None
    /\ deploy_trace = <<>>
    /\ deploy_shown = <<>>

\* _parse_plan has not been called
ParseIdle ==
    /\ doc = None
    /\ response = None
    /\ parse_pc = "idle"
    /\ lines = <<>>
    /\ line_i = 0
    /\ current_section = "None"
    /\ log = <<>>
    /\ earlier = <<>>

\* validate_command is not being exercised on its own
ValIdle ==
    /\ command = None
    /\ verdict = None
    /\ baseline = None

(***************************************************************************)
(* validate_command on its own: SpecValidate                               *)
(*                                                                         *)
(* A command is validated, then one of its letters changes case and the    *)
(* command is validated again; baseline keeps the first verdict.           *)
(***************************************************************************)
\* the most upper-case letters a command under validation holds
MaxUpper == 3

ValCommands ==
    { <<>>,
      <<"l","s">>,
      <<"e","c","h","o"," ","h","i">>,
      <<"s","u","d","o"," ","r","m"," ","-","r","f"," ","/">>,
      <<"n","p","m"," ","i","n","s","t","a","l","l"," ","l","e","f","t","-","p","a","d">>,
      <<"n","p","m"," ","i","n","s","t","a","l","l"," ","a","d","d">>,
      <<"r","m"," ","-","r"," ","f">>,
      <<"r","m","-","r","f">>,
      <<"s","u"," ","d","o">>,
      <<"c","h","m","o","d"," ","+","x"," ","a">>,
      <<"c","h","o","w","n"," ","m","e"," ","a">>,
      <<"x"," ",">"," ","/","d","e","v","/","s","d","a">>,
      <<"e","c","h","o"," ",">"," ","/","d","e">>,
      <<"d"," ","d">>,
      <<"d","d">>,
      <<"g","i","t"," ","a","d","d"," ",".">>,
      <<"m","k","f","s",".","e","x","t","4">>,
      <<"p","a","s","s","w","d">>,
      <<"p","a","s","s"," ","w","d">>,
      <<"m","v"," ","/","*"," ","/","t","m","p">>,
      <<"m","v"," ","/"," ","*">> }

UpperCount(s) == Cardinality({k \in 1..Len(s) : IsUpper(s[k])})

\* s with the case of its k-th character changed
ToggleCase(s, k) == [s EXCEPT ![k] = IF IsUpper(s[k]) THEN LowerCh(s[k]) ELSE UpperCh(s[k])]

InitValidate ==
    /\ command \in ValCommands
    /\ verdict = None
    /\ baseline = None
    /\ execution_plan = EmptyPlan
    /\ ExecIdle
    /\ DeployIdle
    /\ LoopIdle
    /\ ParseIdle

\* a call of SecurityManager.validate_command(command)
Validate ==
    /\ verdict = None
    /\ verdict' = validate_command(command)
    /\ UNCHANGED <<command, baseline, execution_plan>>
    /\ UNCHANGED execVars
    /\ UNCHANGED parseVars
    /\ UNCHANGED deployVars
    /\ UNCHANGED loopVars

\* the caller comes back with the same command in another casing
Recase ==
    /\ verdict # None
    /\ \E k \in 1..Len(command) :
          /\ ToggleCase(command, k) # command
          /\ UpperCount(ToggleCase(command, k)) <= MaxUpper
          /\ command' = ToggleCase(command, k)
    /\ baseline' = IF baseline = None THEN verdict ELSE baseline
    /\ verdict' = None
    /\ UNCHANGED execution_plan
    /\ UNCHANGED execVars
    /\ UNCHANGED parseVars
    /\ UNCHANGED deployVars
    /\ UNCHANGED loopVars

NextValidate == Validate \/ Recase

SpecValidate == InitValidate /\ [][NextValidate]_vars

\* the deny-list entry p occurs in s, compared without regard to case
OccursIgnoringCase(p, s) ==
    \E off \in 0..(Len(s) - Len(p)) : \A j \in 1..Len(p) : LowerCh(s[off + j]) = p[j]

DenyListHit(s) == \E n \in 1..Len(DANGEROUS_PATTERNS) : OccursIgnoringCase(DANGEROUS_PATTERNS[n], s)

\* C4: validate_command(c) rejects exactly when the lower-cased c holds an
\* entry of the deny-list as a substring and accepts otherwise, and the
\* verdict of a re-cased command is that of the command before the re-casing.
C4_DenyList ==
    verdict # None =>
        /\ verdict[1] \in BOOLEAN
        /\ (verdict[1] = FALSE) <=> DenyListHit(command)
        /\ (verdict[1] = TRUE) <=> ~DenyListHit(command)
        /\ baseline # None => verdict[1] = baseline[1]

\* a re-cased command, rejected for a deny-list entry written with an
\* upper-case letter in it
C4_Witness ==
    /\ verdict # None
    /\ baseline # None
    /\ verdict[1] = FALSE
    /\ \E n \in 1..Len(DANGEROUS_PATTERNS) :
          /\ OccursIgnoringCase(DANGEROUS_PATTERNS[n], command)
          /\ ~In(DANGEROUS_PATTERNS[n], command)
    /\ UpperCount(command) > 0

(***************************************************************************)
(* ProjectArchitect._execute_plan: SpecExec                                *)
(*                                                                         *)
(* One action per statement that touches the filesystem, the validator, a  *)
(* child process or the progress display.  A failing filesystem call and   *)
(* the exit code of a child are choices of the environment.                *)
(***************************************************************************)
\* the longest lists of a plan handed to _execute_plan
MaxFiles == 2

MaxDeps == 2

MaxCmds == 2

\* Path(self.project_config.get('name', 'Project'))
project_dir == <<"P","r","o","j","e","c","t">>

\* "npm install "
NpmInstall == <<"n","p","m"," ","i","n","s","t","a","l","l"," ">>

\* f"npm install {pkg}"
InstallCommand(pkg) == NpmInstall \o pkg

\* the message of an exception raised by the operating system
MsgOSError == <<"OSError">>

\* pathlib's dir / path: an absolute path replaces dir
PathJoin(dir, path) == IF startswith(path, <<"/">>) THEN path ELSE dir \o <<"/">> \o path

\* the directory the program runs in, which a relative path starts from
cwd == <<"/","w">>

\* the directories left after the segments segs have been followed from the
\* directories stack: "" and "." stay, ".." goes up
RECURSIVE ResolveFrom(_, _)
ResolveFrom(stack, segs) ==
    IF segs = <<>> THEN stack
    ELSE IF Head(segs) = <<>> \/ Head(segs) = <<".">> THEN ResolveFrom(stack, Tail(segs))
    ELSE IF Head(segs) = <<".", ".">>
        THEN ResolveFrom(IF stack = <<>> THEN stack ELSE SubSeq(stack, 1, Len(stack) - 1), Tail(segs))
    ELSE ResolveFrom(Append(stack, Head(segs)), Tail(segs))

RECURSIVE Canonical(_)
Canonical(segs) == IF segs = <<>> THEN <<>> ELSE <<"/">> \o Head(segs) \o Canonical(Tail(segs))

\* the place in the filesystem that mkdir and write_text reach by the path loc
Resolve(loc) ==
    LET base == IF startswith(loc, <<"/">>) THEN <<>> ELSE ResolveFrom(<<>>, split(cwd, <<"/">>))
    IN  Canonical(ResolveFrom(base, split(loc, <<"/">>)))

\* the directories file_path.parent.mkdir(parents=True) makes sure of
Parents(loc) == {SubSeq(loc, 1, k - 1) : k \in {j \in 2..Len(loc) : loc[j] = "/"}}

\* progress.add_task(..., total=n)
AddTask(task, n) == (task :> [completed |-> 0, total |-> n]) @@ progress

\* an item whose progress update is left out
NoAdvance(task) == progress

\* progress.update(task, advance=1)
Advance(task) == [progress EXCEPT ![task].completed = @ + 1]

\* an entry of trace: item is the position in its list of the plan, arg the
\* location written or the command string, ok whether the call succeeded
\* (for a validate_command call: whether it accepted)
Event(kind, stage, item, arg, ok) == [kind |-> kind, stage |-> stage, item |-> item, arg |-> arg, ok |-> ok]

SeqsUpTo(S, n) == UNION {[1..k -> S] : k \in 0..n}

ExecFiles ==
    { [path |-> <<"a","/","b",".","t","x","t">>, content |-> <<"h","e","l","l","o">>],
      [path |-> <<"a","/","b",".","t","x","t">>, content |-> <<"b","y","e">>],
      [path |-> <<"c">>, content |-> <<"x">>] }

ExecPkgs == { <<"l","e","f","t","-","p","a","d","@","1",".","0",".","0">>, <<"a","d","d">> }

ExecCmds == { <<"e","c","h","o"," ","h","i">>, <<"S","U","D","O"," ","l","s">>, <<"l","s">> }

\* a path that goes up from the project directory, and an absolute path
UpPath == <<".",".","/","e">>

AbsPath == <<"/","e","t","c","/","e">>

\* the paths of the files of the plans that are executed
ExecPaths == {f.path : f \in ExecFiles} \cup {UpPath, AbsPath}

\* file_path = project_dir / file['path'], as the filesystem resolves it:
\* its value for each of these paths, computed once
Location == [p \in ExecPaths |-> Resolve(PathJoin(project_dir, p))]

\* the directories file_path.parent.mkdir(parents=True, exist_ok=True) makes
\* sure of, for each of these paths
ParentDirs == [p \in ExecPaths |-> {Resolve(d) : d \in Parents(PathJoin(project_dir, p))}]

\* the project root in the filesystem
Root == Resolve(project_dir)

\* the strings the plans of InitExec make _execute_plan hand to validate_command
ExecStrings == {InstallCommand(p) : p \in ExecPkgs} \cup ExecCmds \cup ExecPkgs

\* validate_command depends on its argument alone: its value on each of these
\* strings, computed once
Validated == [c \in ExecStrings |-> validate_command(c)]

InitExec ==
    /\ execution_plan \in [files : SeqsUpTo(ExecFiles, MaxFiles),
                           commands : SeqsUpTo(ExecCmds, MaxCmds),
                           dependencies : SeqsUpTo(ExecPkgs, MaxDeps)]
    /\ ExecIdle
    /\ DeployIdle
    /\ LoopIdle
    /\ ValIdle
    /\ ParseIdle

\* a Files loop that stops one file short
FilesLoopDoneEarly == file_i >= Len(execution_plan.files) - 1

\* "for file in files" has no file left
FilesLoopDone == file_i >= Len(execution_plan.files)

\* a Dependencies loop that stops one package short
DepsLoopDoneEarly == dep_i >= Len(execution_plan.dependencies) - 1

\* "for pkg in dependencies" has no package left
DepsLoopDone == dep_i >= Len(execution_plan.dependencies)

CmdsLoopDone == cmd_i >= Len(execution_plan.commands)

\* an except clause that logs and goes on with the next file
FileErrorSwallowed(i) == [pc |-> "files", file_i |-> i + 1]

\* "except Exception as e: logger.error(...); raise" in the Files loop
FileErrorRaised(i) == [pc |-> "aborted", file_i |-> i]

\* a check that lets every install through
DepMayRunUnchecked(vm) == TRUE

\* "if not valid: raise" did not raise, Dependencies loop
DepMayRun(vm) == vm[1]

\* a check that lets every command through
CmdMayRunUnchecked(vm) == TRUE

\* "if not valid: raise" did not raise, Commands loop
CmdMayRun(vm) == vm[1]

\* a write that leaves a file that is there already as it is
write_text_if_absent(files, loc, content) ==
    IF loc \in DOMAIN files THEN files ELSE (loc :> content) @@ files

\* file_path.write_text(content): the file at loc holds content afterwards,
\* whether or not it was there before
write_text(files, loc, content) == (loc :> content) @@ files

\* the message of subprocess.CalledProcessError
MsgCalledProcessError == <<"CalledProcessError">>

\* subprocess.run(..., check=True): an exit code other than zero raises
RaisesOnFailure(returncode) == returncode # 0

\* subprocess.run without check raises for no exit code, and
\* result.returncode is not read
Raises(returncode) == FALSE

\* an except clause that ignores the failure to start a child and goes on as
\* if the child had run
SpawnErrorIgnored(waiting) == waiting

\* subprocess.run raises when the child cannot be started; nothing in
\* _execute_plan catches it
SpawnErrorRaised(waiting) == "aborted"

\* a check of the package name alone
ValidatedInstallName(pkg) == pkg

\* the string handed to validate_command for a dependency:
\* f"npm install {pkg}", as in the subprocess.run call that follows
ValidatedInstall(pkg) == InstallCommand(pkg)

\* a call that returns while its child goes on running
LeftRunning(children, child) == children

\* subprocess.run returns once its child has ended
Reaped(children, child) == children \ {child}

\* a call of _execute_plan whatever the answer
MayExecuteAnyAnswer(answer) == answer # None

\* "if questionary.confirm(...).ask():" lets _execute_plan be called
MayExecute(answer) == answer = <<TRUE>>

\* questionary.confirm("Proceed with project creation?").ask(), once the plan
\* has been parsed and displayed
Confirm ==
    /\ pc = "start"
    /\ confirmed = None
    /\ parse_pc \in {"idle", "done"}
    /\ \E answer \in BOOLEAN : confirmed' = <<answer>>
    /\ UNCHANGED <<pc, file_i, dep_i, cmd_i, valid_msg, progress, result, error, dirs, disk, running, trace>>
    /\ UNCHANGED <<execution_plan, shown, command, verdict, baseline>>
    /\ UNCHANGED parseVars
    /\ UNCHANGED deployVars
    /\ UNCHANGED loopVars

\* project_dir.mkdir(exist_ok=True)
ExecStart ==
    /\ pc = "start"
    /\ MayExecute(confirmed)
    /\ \/ /\ dirs' = dirs \cup {Root}
          /\ pc' = "enter_files"
          /\ UNCHANGED error
       \/ /\ error' = MsgOSError
          /\ pc' = "aborted"
          /\ UNCHANGED dirs
    /\ UNCHANGED <<file_i, dep_i, cmd_i, valid_msg, progress, result, disk, running, trace>>
    /\ UNCHANGED <<execution_plan, confirmed, shown, command, verdict, baseline>>
    /\ UNCHANGED parseVars
    /\ UNCHANGED deployVars
    /\ UNCHANGED loopVars

\* file_task = progress.add_task(...)
BeginFiles ==
    /\ pc = "enter_files"
    /\ progress' = AddTask("files", Len(execution_plan.files))
    /\ pc' = "files"
    /\ UNCHANGED <<file_i, dep_i, cmd_i, valid_msg, result, error, dirs, disk, running, trace>>
    /\ UNCHANGED <<execution_plan, confirmed, shown, command, verdict, baseline>>
    /\ UNCHANGED parseVars
    /\ UNCHANGED deployVars
    /\ UNCHANGED loopVars

\* one turn of the Files loop
WriteFile ==
    /\ pc = "files"
    /\ ~FilesLoopDone
    /\ LET file == execution_plan.files[file_i + 1]
           loc == Location[file.path]
           made == ParentDirs[file.path]
       IN  \/ /\ dirs' = dirs \cup made
              /\ disk' = write_text(disk, loc, file.content)
              /\ progress' = Advance("files")
              /\ file_i' = file_i + 1
              /\ trace' = Append(trace, Event("write", "files", file_i + 1, loc, TRUE))
              /\ UNCHANGED <<pc, error>>
           \/ \* file_path.parent.mkdir raises
              /\ error' = MsgOSError
              /\ pc' = FileErrorRaised(file_i).pc
              /\ file_i' = FileErrorRaised(file_i).file_i
              /\ trace' = Append(trace, Event("write", "files", file_i + 1, loc, FALSE))
              /\ UNCHANGED <<dirs, disk, progress>>
           \/ \* file_path.write_text raises
              /\ dirs' = dirs \cup made
              /\ error' = MsgOSError
              /\ pc' = FileErrorRaised(file_i).pc
              /\ file_i' = FileErrorRaised(file_i).file_i
              /\ trace' = Append(trace, Event("write", "files", file_i + 1, loc, FALSE))
              /\ UNCHANGED <<disk, progress>>
    /\ UNCHANGED <<dep_i, cmd_i, valid_msg, result, running>>
    /\ UNCHANGED <<execution_plan, confirmed, shown, command, verdict, baseline>>
    /\ UNCHANGED parseVars
    /\ UNCHANGED deployVars
    /\ UNCHANGED loopVars

\* dep_task = progress.add_task(...)
BeginDeps ==
    /\ pc = "files"
    /\ FilesLoopDone
    /\ progress' = AddTask("deps", Len(execution_plan.dependencies))
    /\ pc' = "deps"
    /\ UNCHANGED <<file_i, dep_i, cmd_i, valid_msg, result, error, dirs, disk, running, trace>>
    /\ UNCHANGED <<execution_plan, confirmed, shown, command, verdict, baseline>>
    /\ UNCHANGED parseVars
    /\ UNCHANGED deployVars
    /\ UNCHANGED loopVars

\* valid, msg = SecurityManager.validate_command(f"npm install {pkg}")
DepValidate ==
    /\ pc = "deps"
    /\ ~DepsLoopDone
    /\ LET pkg == execution_plan.dependencies[dep_i + 1]
           vm == Validated[ValidatedInstall(pkg)]
       IN  /\ valid_msg' = vm
           /\ trace' = Append(trace, Event("validate", "deps", dep_i + 1, ValidatedInstall(pkg), vm[1]))
           /\ IF DepMayRun(vm)
              THEN pc' = "dep_run" /\ UNCHANGED error
              ELSE pc' = "aborted" /\ error' = vm[2]
    /\ UNCHANGED <<file_i, dep_i, cmd_i, progress, result, dirs, disk, running>>
    /\ UNCHANGED <<execution_plan, confirmed, shown, command, verdict, baseline>>
    /\ UNCHANGED parseVars
    /\ UNCHANGED deployVars
    /\ UNCHANGED loopVars

\* subprocess.run(f"npm install {pkg}", shell=True, cwd=project_dir) starts the child
DepSpawn ==
    /\ pc = "dep_run"
    /\ LET pkg == execution_plan.dependencies[dep_i + 1]
       IN  \/ /\ trace' = Append(trace, Event("spawn", "deps", dep_i + 1, InstallCommand(pkg), TRUE))
              /\ running' = running \cup {Len(trace) + 1}
              /\ pc' = "dep_wait"
              /\ UNCHANGED error
           \/ \* the shell cannot be started
              /\ trace' = Append(trace, Event("spawn", "deps", dep_i + 1, InstallCommand(pkg), FALSE))
              /\ error' = MsgOSError
              /\ pc' = SpawnErrorRaised("dep_wait")
              /\ UNCHANGED running
    /\ UNCHANGED <<file_i, dep_i, cmd_i, valid_msg, progress, result, dirs, disk>>
    /\ UNCHANGED <<execution_plan, confirmed, shown, command, verdict, baseline>>
    /\ UNCHANGED parseVars
    /\ UNCHANGED deployVars
    /\ UNCHANGED loopVars

\* the child ends, subprocess.run returns; progress.update(dep_task, advance=1)
DepReturn ==
    /\ pc = "dep_wait"
    /\ \E returncode \in {0, 1} :
            /\ result' = <<returncode>>
            /\ IF Raises(returncode)
               THEN /\ error' = MsgCalledProcessError
                    /\ pc' = "aborted"
                    /\ UNCHANGED <<progress, dep_i>>
               ELSE /\ progress' = Advance("deps")
                    /\ dep_i' = dep_i + 1
                    /\ pc' = "deps"
                    /\ UNCHANGED error
    /\ running' = Reaped(running, Len(trace))
    /\ trace' = Append(trace, Event("return", "deps", dep_i + 1, trace[Len(trace)].arg, TRUE))
    /\ UNCHANGED <<file_i, cmd_i, valid_msg, dirs, disk>>
    /\ UNCHANGED <<execution_plan, confirmed, shown, command, verdict, baseline>>
    /\ UNCHANGED parseVars
    /\ UNCHANGED deployVars
    /\ UNCHANGED loopVars

\* cmd_task = progress.add_task(...)
BeginCommands ==
    /\ pc = "deps"
    /\ DepsLoopDone
    /\ progress' = AddTask("cmds", Len(execution_plan.commands))
    /\ pc' = "cmds"
    /\ UNCHANGED <<file_i, dep_i, cmd_i, valid_msg, result, error, dirs, disk, running, trace>>
    /\ UNCHANGED <<execution_plan, confirmed, shown, command, verdict, baseline>>
    /\ UNCHANGED parseVars
    /\ UNCHANGED deployVars
    /\ UNCHANGED loopVars

\* valid, msg = SecurityManager.validate_command(cmd)
CmdValidate ==
    /\ pc = "cmds"
    /\ ~CmdsLoopDone
    /\ LET cmd == execution_plan.commands[cmd_i + 1]
           vm == Validated[cmd]
       IN  /\ valid_msg' = vm
           /\ trace' = Append(trace, Event("validate", "cmds", cmd_i + 1, cmd, vm[1]))
           /\ IF CmdMayRun(vm)
              THEN pc' = "cmd_run" /\ UNCHANGED error
              ELSE pc' = "aborted" /\ error' = vm[2]
    /\ UNCHANGED <<file_i, dep_i, cmd_i, progress, result, dirs, disk, running>>
    /\ UNCHANGED <<execution_plan, confirmed, shown, command, verdict, baseline>>
    /\ UNCHANGED parseVars
    /\ UNCHANGED deployVars
    /\ UNCHANGED loopVars

\* subprocess.run(cmd, shell=True, cwd=project_dir) starts the child
CmdSpawn ==
    /\ pc = "cmd_run"
    /\ LET cmd == execution_plan.commands[cmd_i + 1]
       IN  \/ /\ trace' = Append(trace, Event("spawn", "cmds", cmd_i + 1, cmd, TRUE))
              /\ running' = running \cup {Len(trace) + 1}
              /\ pc' = "cmd_wait"
              /\ UNCHANGED error
           \/ \* the shell cannot be started
              /\ trace' = Append(trace, Event("spawn", "cmds", cmd_i + 1, cmd, FALSE))
              /\ error' = MsgOSError
              /\ pc' = SpawnErrorRaised("cmd_wait")
              /\ UNCHANGED running
    /\ UNCHANGED <<file_i, dep_i, cmd_i, valid_msg, progress, result, dirs, disk>>
    /\ UNCHANGED <<execution_plan, confirmed, shown, command, verdict, baseline>>
    /\ UNCHANGED parseVars
    /\ UNCHANGED deployVars
    /\ UNCHANGED loopVars

\* the child ends, subprocess.run returns; progress.update(cmd_task, advance=1)
CmdReturn ==
    /\ pc = "cmd_wait"
    /\ \E returncode \in {0, 1} :
            /\ result' = <<returncode>>
            /\ IF Raises(returncode)
               THEN /\ error' = MsgCalledProcessError
                    /\ pc' = "aborted"
                    /\ UNCHANGED <<progress, cmd_i>>
               ELSE /\ progress' = Advance("cmds")
                    /\ cmd_i' = cmd_i + 1
                    /\ pc' = "cmds"
                    /\ UNCHANGED error
    /\ running' = Reaped(running, Len(trace))
    /\ trace' = Append(trace, Event("return", "cmds", cmd_i + 1, trace[Len(trace)].arg, TRUE))
    /\ UNCHANGED <<file_i, dep_i, valid_msg, dirs, disk>>
    /\ UNCHANGED <<execution_plan, confirmed, shown, command, verdict, baseline>>
    /\ UNCHANGED parseVars
    /\ UNCHANGED deployVars
    /\ UNCHANGED loopVars

\* the Commands loop ends and _execute_plan returns
ExecReturn ==
    /\ pc = "cmds"
    /\ CmdsLoopDone
    /\ pc' = "completed"
    /\ UNCHANGED <<file_i, dep_i, cmd_i, valid_msg, progress, result, error, dirs, disk, running, trace>>
    /\ UNCHANGED <<execution_plan, confirmed, shown, command, verdict, baseline>>
    /\ UNCHANGED parseVars
    /\ UNCHANGED deployVars
    /\ UNCHANGED loopVars

NextExec ==
    \/ Confirm
    \/ ExecStart
    \/ BeginFiles
    \/ WriteFile
    \/ BeginDeps
    \/ DepValidate
    \/ DepSpawn
    \/ DepReturn
    \/ BeginCommands
    \/ CmdValidate
    \/ CmdSpawn
    \/ CmdReturn
    \/ ExecReturn

SpecExec == InitExec /\ [][NextExec]_vars

(***************************************************************************)
(* _execute_plan as a running program: SpecExecLive                        *)
(*                                                                         *)
(* Once called, _execute_plan goes on from statement to statement, and a   *)
(* child that has been started ends: weak fairness of the steps of         *)
(* _execute_plan.  Nothing makes the user answer the confirmation.         *)
(***************************************************************************)
\* the most items of each list of a plan of SpecExecLive
MaxLive == 1

InitExecLive ==
    /\ execution_plan \in [files : SeqsUpTo(ExecFiles, MaxLive),
                           commands : SeqsUpTo(ExecCmds, MaxLive),
                           dependencies : SeqsUpTo(ExecPkgs, MaxLive)]
    /\ ExecIdle
    /\ DeployIdle
    /\ LoopIdle
    /\ ValIdle
    /\ ParseIdle

\* the steps of _execute_plan
ExecSteps ==
    \/ ExecStart
    \/ BeginFiles
    \/ WriteFile
    \/ BeginDeps
    \/ DepValidate
    \/ DepSpawn
    \/ DepReturn
    \/ BeginCommands
    \/ CmdValidate
    \/ CmdSpawn
    \/ CmdReturn
    \/ ExecReturn

NextExecLive == Confirm \/ ExecSteps

SpecExecLive == InitExecLive /\ [][NextExecLive]_vars /\ WF_vars(ExecSteps)

(***************************************************************************)
(* Properties of _execute_plan                                             *)
(***************************************************************************)
\* the numbers of the entries of trace of one kind and one stage
EventsOf(kind, stage) == {k \in DOMAIN trace : trace[k].kind = kind /\ trace[k].stage = stage}

\* the entries of trace that are a validate_command call or a spawn of a stage
Begun(stage) == EventsOf("validate", stage) \cup EventsOf("spawn", stage)

\* the files written so far
Written == {k \in EventsOf("write", "files") : trace[k].ok}

\* the children started so far
Spawned(stage) == {k \in EventsOf("spawn", stage) : trace[k].ok}

\* the positions of a stage's list whose child has been started
SpawnedItems(stage) == {trace[k].item : k \in Spawned(stage)}

\* the content the Files stage wrote last at the location of write number k
LastContentAt(k) ==
    LET same == {j \in Written : trace[j].arg = trace[k].arg}
        last == CHOOSE j \in same : \A i \in same : i <= j
    IN  execution_plan.files[trace[last].item].content

\* every file written so far is on disk with the content written there last
FilesKept == \A k \in Written : trace[k].arg \in DOMAIN disk /\ disk[trace[k].arg] = LastContentAt(k)

\* C1: no dependency install is validated or spawned before every file of
\* the plan has been written, and no setup command is validated or spawned
\* before every dependency install has been spawned and has returned.
C1_StageOrder ==
    /\ Begun("deps") # {} =>
          {trace[k].item : k \in Written} = 1..Len(execution_plan.files)
    /\ Begun("cmds") # {} =>
          /\ SpawnedItems("deps") = 1..Len(execution_plan.dependencies)
          /\ {trace[k].item : k \in EventsOf("return", "deps")} = 1..Len(execution_plan.dependencies)
          /\ \A k \in Spawned("deps") : k \notin running

\* a plan with files, dependencies and commands whose three stages have all run
C1_Witness ==
    /\ pc = "completed"
    /\ Len(execution_plan.files) = MaxFiles
    /\ Len(execution_plan.dependencies) = MaxDeps
    /\ Len(execution_plan.commands) = MaxCmds
    /\ Cardinality(Spawned("cmds")) = MaxCmds

\* C2: every child process spawned was preceded by a validate_command call
\* on its command, for the same item, that accepted it; no command the
\* deny-list rejects is ever spawned.
C2_SpawnOnlyValidated ==
    \A k \in DOMAIN trace :
        trace[k].kind = "spawn" =>
            /\ \E j \in 1..(k - 1) :
                  /\ trace[j].kind = "validate"
                  /\ trace[j].stage = trace[k].stage
                  /\ trace[j].item = trace[k].item
                  /\ trace[j].arg = trace[k].arg
                  /\ trace[j].ok
            /\ ~DenyListHit(trace[k].arg)

\* a rejected install stopped a plan that had spawned an accepted one before
C2_Witness ==
    /\ Spawned("deps") # {}
    /\ \E k \in EventsOf("validate", "deps") : ~trace[k].ok /\ DenyListHit(trace[k].arg)
    /\ pc = "aborted"

\* the positions of the command list that hold a command the deny-list rejects
RejectedCmds == {k \in 1..Len(execution_plan.commands) : DenyListHit(execution_plan.commands[k])}

\* C3: with a rejected command at position k of the command list, no command
\* at a position >= k is ever spawned, the execution does not complete, it
\* is aborted once the Commands loop reaches the first such k, and after the
\* abort every file the Files stage wrote is on disk with its content.
C3_FailFastCommands ==
    \A k \in RejectedCmds :
        /\ \A n \in EventsOf("spawn", "cmds") : trace[n].item < k
        /\ pc # "completed"
        /\ (\E n \in EventsOf("validate", "cmds") : trace[n].item = k) =>
              /\ pc = "aborted"
              /\ \A m \in RejectedCmds : k <= m
              /\ FilesKept
              /\ Cardinality(Written) = Len(execution_plan.files)

\* the second command is rejected after the first one ran, with files on disk
C3_Witness ==
    /\ pc = "aborted"
    /\ 2 \in RejectedCmds
    /\ SpawnedItems("cmds") = {1}
    /\ \E n \in EventsOf("validate", "cmds") : trace[n].item = 2 /\ ~trace[n].ok
    /\ Cardinality(DOMAIN disk) >= 1
    /\ Cardinality(Written) = MaxFiles

\* C5: when the write of the file at position i fails, the execution is
\* aborted at once: no file at a later position is written, no install and
\* no command is validated or spawned, and the files written before stay
\* on disk as written.
C5_WriteFailureAborts ==
    \A k \in EventsOf("write", "files") :
        ~trace[k].ok =>
            /\ pc = "aborted"
            /\ k = Len(trace)
            /\ \A n \in EventsOf("write", "files") : n # k => trace[n].item < trace[k].item
            /\ Begun("deps") = {} /\ Begun("cmds") = {}
            /\ {trace[n].item : n \in Written} = 1..(trace[k].item - 1)
            /\ FilesKept

\* the second file fails after the first was written, in a plan that has
\* dependencies and commands
C5_Witness ==
    /\ \E k \in EventsOf("write", "files") : ~trace[k].ok /\ trace[k].item = 2
    /\ Cardinality(DOMAIN disk) = 1
    /\ execution_plan.dependencies # <<>>
    /\ execution_plan.commands # <<>>

\* C6: when the install command of the dependency at position j is rejected,
\* the execution is aborted at once: no dependency at a position >= j is
\* installed, the Commands stage never starts, the dependencies before j
\* have been installed, and the error raised is the validator's reason,
\* which names the rejected command string.
C6_RejectedInstallAborts ==
    \A k \in EventsOf("validate", "deps") :
        ~trace[k].ok =>
            /\ pc = "aborted"
            /\ k = Len(trace)
            /\ SpawnedItems("deps") = 1..(trace[k].item - 1)
            /\ {trace[n].item : n \in EventsOf("return", "deps")} = 1..(trace[k].item - 1)
            /\ "cmds" \notin DOMAIN progress
            /\ Begun("cmds") = {}
            /\ error = valid_msg[2]
            /\ error = MsgDangerous \o NpmInstall \o execution_plan.dependencies[trace[k].item]
            /\ In(trace[k].arg, error)

\* the second dependency is rejected after the first was installed
C6_Witness ==
    /\ \E k \in EventsOf("validate", "deps") : ~trace[k].ok /\ trace[k].item = 2
    /\ SpawnedItems("deps") = {1}
    /\ execution_plan.commands # <<>>
    /\ pc = "aborted"

(***************************************************************************)
(* ProjectArchitect._parse_plan: SpecParse and SpecDoc                     *)
(*                                                                         *)
(* One action for the statements before the loop, one per turn of the      *)
(* loop, one for the return.  SpecParse parses short texts of any lines    *)
(* and calls _parse_plan again on the same object; SpecDoc parses the      *)
(* texts written from well-formed sections.                                *)
(***************************************************************************)
\* the most lines of a text of SpecParse
MaxLines == 3

\* the most calls of _parse_plan on one ProjectArchitect in SpecParse
MaxParses == 3

\* the most sections of a text of SpecDoc
MaxSections == 3

NewLine == <<"\n">>

MarkFiles == <<"/","/"," ","F","I","L","E","S">>

MarkCommands == <<"/","/"," ","C","O","M","M","A","N","D","S">>

MarkDeps == <<"/","/"," ","D","E","P","S">>

TagFile == <<"F","I","L","E",":">>

TagShell == <<"S","H","E","L","L",":">>

TagPkg == <<"P","K","G",":">>

Separator == <<" ","=",">"," ">>

\* a slice that starts one character late
FileBodyLate(line) == Slice(line, 7)

\* content = line[6:]
FileBody(line) == Slice(line, 6)

\* line[7:]
ShellBody(line) == Slice(line, 7)

\* line[5:]
PkgBody(line) == Slice(line, 5)

\* an entry test that forgets the section
InSectionAny(section, wanted) == TRUE

\* current_section == "files" (or "commands", "dependencies")
InSection(section, wanted) == section = wanted

\* a malformed FILE: line kept as a file with no content
MalformedKept(st, line) ==
    [st EXCEPT !.plan.files = Append(@, [path |-> strip(FileBody(line)), content |-> <<>>])]

\* except Exception as e: logger.error(f"Error parsing file line: ...")
MalformedSkipped(st, line) == [st EXCEPT !.log = Append(@, line)]

\* a section marker honoured only while no section has been entered
MarkerSectionOnce(st, section) ==
    IF st.section = "None" THEN [st EXCEPT !.section = section] ELSE st

\* current_section = "files" / "commands" / "dependencies"
MarkerSection(st, section) == [st EXCEPT !.section = section]

\* one turn of the loop of _parse_plan on the raw line, from the state st
\* (section, plan, log)
ParseStep(st, raw) ==
    LET line == strip(raw)
    IN  IF startswith(line, MarkFiles) THEN MarkerSection(st, "files")
        ELSE IF startswith(line, MarkCommands) THEN MarkerSection(st, "commands")
        ELSE IF startswith(line, MarkDeps) THEN MarkerSection(st, "dependencies")
        ELSE IF InSection(st.section, "files") /\ startswith(line, TagFile) THEN
            LET parts == split1(FileBody(line), Separator)
            IN  IF Len(parts) = 2
                THEN [st EXCEPT !.plan.files = Append(@, [path |-> strip(parts[1]), content |-> strip(parts[2])])]
                ELSE MalformedSkipped(st, line)
        ELSE IF InSection(st.section, "commands") /\ startswith(line, TagShell) THEN
            [st EXCEPT !.plan.commands = Append(@, strip(ShellBody(line)))]
        ELSE IF InSection(st.section, "dependencies") /\ startswith(line, TagPkg) THEN
            [st EXCEPT !.plan.dependencies = Append(@, strip(PkgBody(line)))]
        ELSE st

\* the loop of _parse_plan over the lines ls from line number k on
RECURSIVE ParseLoop(_, _, _)
ParseLoop(st, ls, k) == IF k > Len(ls) THEN st ELSE ParseLoop(ParseStep(st, ls[k]), ls, k + 1)

\* _parse_plan on an object fresh from __init__: the plan and the lines logged
ParsePlan(text) == ParseLoop([section |-> "None", plan |-> EmptyPlan, log |-> <<>>], split(text, NewLine), 1)

\* a _parse_plan that goes on with the plan the object holds
PlanKept(held) == held

\* self.execution_plan = {"files": [], "commands": [], "dependencies": []}
PlanReset(held) == EmptyPlan

\* '\n'.join(ls)
RECURSIVE JoinLines(_)
JoinLines(ls) ==
    IF ls = <<>> THEN <<>>
    ELSE IF Len(ls) = 1 THEN ls[1]
    ELSE ls[1] \o NewLine \o JoinLines(Tail(ls))

\* the lines the texts of SpecParse are made of
ParseLines ==
    { MarkFiles,
      MarkCommands,
      MarkDeps,
      <<"F","I","L","E",":"," ","a","/","b",".","t","x","t"," ","=",">"," ","h","e","l","l","o">>,
      <<"F","I","L","E",":"," ","a","/","b",".","t","x","t">>,
      <<"F","I","L","E",":"," ","c"," ","=",">","x">>,
      <<" ","S","H","E","L","L",":"," ","l","s"," ">>,
      <<"P","K","G",":"," ","a","d","d">>,
      <<"h","e","l","l","o">>,
      <<>> }

Texts == {JoinLines(ls) : ls \in SeqsUpTo(ParseLines, MaxLines)}

\* the texts a later call of _parse_plan on the same object may be given,
\* besides the text of an earlier call
OtherTexts ==
    { JoinLines(<< MarkFiles,
                   <<"F","I","L","E",":"," ","c"," ","=",">"," ","x">>,
                   MarkCommands,
                   <<"S","H","E","L","L",":"," ","e","c","h","o"," ","h","i">> >>) }

\* the lines the texts of SpecLines are made of: the lines of SpecParse, a
\* marker followed by more text, entry lines whose tag is not followed by a
\* space, and FILE: lines with the separator at their start, at their end
\* and twice
WideLines ==
    ParseLines \cup
    { <<"/","/"," ","F","I","L","E","S"," ","a","n","d"," ","m","o","r","e">>,
      <<"S","H","E","L","L",":","l","s">>,
      <<"P","K","G",":","x">>,
      <<"F","I","L","E",":","a"," ","=",">"," ","b">>,
      <<"F","I","L","E",":"," ","a"," ","=",">"," ">>,
      <<"F","I","L","E",":"," ","=",">"," ","x">>,
      <<"F","I","L","E",":"," ","c"," ","=",">"," ","x"," ","=",">"," ","y">> }

WideTexts == {JoinLines(ls) : ls \in SeqsUpTo(WideLines, MaxLines)}

\* the well-formed entry lines
FileLine(f) == TagFile \o <<" ">> \o f.path \o Separator \o f.content

ShellLine(c) == TagShell \o <<" ">> \o c

PkgLine(d) == TagPkg \o <<" ">> \o d

DocFile1 == [path |-> <<"a","/","b",".","t","x","t">>, content |-> <<"h","e","l","l","o">>]

DocFile2 == [path |-> <<"c">>, content |-> <<"x"," ","=",">"," ","y">>]

DocCmd1 == <<"e","c","h","o"," ","h","i">>

DocCmd2 == <<"l","s">>

DocPkg1 == <<"l","e","f","t","-","p","a","d","@","1",".","0",".","0">>

DocPkg2 == <<"a","d","d">>

\* a section: its marker and its entries
DocSections ==
    {[marker |-> MarkFiles, entries |-> e] : e \in {<<>>, <<DocFile1>>, <<DocFile1, DocFile2>>}}
    \cup {[marker |-> MarkCommands, entries |-> e] : e \in {<<>>, <<DocCmd1>>, <<DocCmd1, DocCmd2>>}}
    \cup {[marker |-> MarkDeps, entries |-> e] : e \in {<<>>, <<DocPkg1>>, <<DocPkg1, DocPkg2>>}}

Docs == SeqsUpTo(DocSections, MaxSections)

\* the lines of a section
SectionLines(sec) ==
    <<sec.marker>> \o
    [k \in 1..Len(sec.entries) |->
        CASE sec.marker = MarkFiles -> FileLine(sec.entries[k])
          [] sec.marker = MarkCommands -> ShellLine(sec.entries[k])
          [] sec.marker = MarkDeps -> PkgLine(sec.entries[k])]

RECURSIVE DocLines(_)
DocLines(d) == IF d = <<>> THEN <<>> ELSE SectionLines(Head(d)) \o DocLines(Tail(d))

\* the text written from the sections d
Render(d) == JoinLines(DocLines(d))

\* the entries of the sections of d that carry the marker, in the order of the text
RECURSIVE EntriesOf(_, _)
EntriesOf(d, marker) ==
    IF d = <<>> THEN <<>>
    ELSE (IF Head(d).marker = marker THEN Head(d).entries ELSE <<>>) \o EntriesOf(Tail(d), marker)

InitParse ==
    /\ doc = None
    /\ response \in Texts
    /\ parse_pc = "call"
    /\ lines = <<>>
    /\ line_i = 0
    /\ current_section = "None"
    /\ log = <<>>
    /\ earlier = <<>>
    /\ execution_plan = EmptyPlan
    /\ ExecIdle
    /\ DeployIdle
    /\ LoopIdle
    /\ ValIdle

InitDoc ==
    /\ doc \in Docs
    /\ response = Render(doc)
    /\ parse_pc = "call"
    /\ lines = <<>>
    /\ line_i = 0
    /\ current_section = "None"
    /\ log = <<>>
    /\ earlier = <<>>
    /\ execution_plan = EmptyPlan
    /\ ExecIdle
    /\ DeployIdle
    /\ LoopIdle
    /\ ValIdle

InitLines ==
    /\ doc = None
    /\ response \in WideTexts
    /\ parse_pc = "call"
    /\ lines = <<>>
    /\ line_i = 0
    /\ current_section = "None"
    /\ log = <<>>
    /\ earlier = <<>>
    /\ execution_plan = EmptyPlan
    /\ ExecIdle
    /\ DeployIdle
    /\ LoopIdle
    /\ ValIdle

\* the statements of _parse_plan before its loop
ParseBegin ==
    /\ parse_pc = "call"
    /\ execution_plan' = PlanReset(execution_plan)
    /\ current_section' = "None"
    /\ lines' = split(response, NewLine)
    /\ line_i' = 0
    /\ parse_pc' = "loop"
    /\ UNCHANGED <<doc, response, log, earlier>>
    /\ UNCHANGED execVars
    /\ UNCHANGED valVars
    /\ UNCHANGED deployVars
    /\ UNCHANGED loopVars

\* one turn of the loop
ParseLine ==
    /\ parse_pc = "loop"
    /\ line_i < Len(lines)
    /\ LET st == ParseStep([section |-> current_section, plan |-> execution_plan, log |-> log], lines[line_i + 1])
       IN  /\ current_section' = st.section
           /\ execution_plan' = st.plan
           /\ log' = st.log
    /\ line_i' = line_i + 1
    /\ UNCHANGED <<doc, response, parse_pc, lines, earlier>>
    /\ UNCHANGED execVars
    /\ UNCHANGED valVars
    /\ UNCHANGED deployVars
    /\ UNCHANGED loopVars

\* the loop ends and _parse_plan returns
ParseReturn ==
    /\ parse_pc = "loop"
    /\ line_i >= Len(lines)
    /\ parse_pc' = "done"
    /\ earlier' = Append(earlier, [response |-> response, plan |-> execution_plan])
    /\ UNCHANGED <<doc, response, lines, line_i, current_section, log, execution_plan>>
    /\ UNCHANGED execVars
    /\ UNCHANGED valVars
    /\ UNCHANGED deployVars
    /\ UNCHANGED loopVars

\* _parse_plan is called again on the same object, with the text of an
\* earlier call or with another text
ParseAgain ==
    /\ parse_pc = "done"
    /\ Len(earlier) < MaxParses
    /\ response' \in OtherTexts \cup {earlier[k].response : k \in DOMAIN earlier}
    /\ parse_pc' = "call"
    /\ UNCHANGED <<doc, lines, line_i, current_section, log, earlier, execution_plan>>
    /\ UNCHANGED execVars
    /\ UNCHANGED valVars
    /\ UNCHANGED deployVars
    /\ UNCHANGED loopVars

NextParse == ParseBegin \/ ParseLine \/ ParseReturn \/ ParseAgain

SpecParse == InitParse /\ [][NextParse]_vars

NextDoc == ParseBegin \/ ParseLine \/ ParseReturn

SpecDoc == InitDoc /\ [][NextDoc]_vars

NextLines == ParseBegin \/ ParseLine \/ ParseReturn

SpecLines == InitLines /\ [][NextLines]_vars

(***************************************************************************)
(* start_creation_flow from the reply of the AI on: SpecCreate             *)
(*                                                                         *)
(* The reply is parsed, the user is asked to confirm and the plan parsed   *)
(* from the reply is executed.                                             *)
(***************************************************************************)
\* a second file at the path of DocFile1
DocFile3 == [path |-> <<"a","/","b",".","t","x","t">>, content |-> <<"b","y","e">>]

\* a file whose path goes up from the project directory
DocFileUp == [path |-> UpPath, content |-> <<"x">>]

\* a file with an absolute path
DocFileAbs == [path |-> AbsPath, content |-> <<"x">>]

CreateSections ==
    {[marker |-> MarkFiles, entries |-> e] :
        e \in {<<DocFile1, DocFile3>>, <<DocFile3, DocFile2>>, <<DocFileUp>>, <<DocFileAbs>>}}
    \cup {[marker |-> MarkCommands, entries |-> <<DocCmd1>>],
          [marker |-> MarkDeps, entries |-> <<DocPkg1>>],
          [marker |-> MarkDeps, entries |-> <<DocPkg2>>]}

CreateDocs == SeqsUpTo(CreateSections, MaxSections)

\* "Project creation failed: "
MsgCreationFailed == <<"Project creation failed: ">>

\* a success panel printed however _execute_plan ended
MayShowSuccessAlways(at) == at \in {"completed", "aborted"}

\* the console.print after self._execute_plan() is reached when the call
\* has returned
MayShowSuccess(at) == at = "completed"

\* console.print(Panel.fit("... created successfully! ...")) in
\* _confirm_and_execute
ShowSuccess ==
    /\ MayShowSuccess(pc)
    /\ shown = <<>>
    /\ shown' = <<[panel |-> "success", text |-> project_dir]>>
    /\ UNCHANGED <<confirmed, pc, file_i, dep_i, cmd_i, valid_msg, progress, result, error, dirs, disk, running, trace>>
    /\ UNCHANGED <<execution_plan, command, verdict, baseline>>
    /\ UNCHANGED parseVars
    /\ UNCHANGED deployVars
    /\ UNCHANGED loopVars

\* the exception of _execute_plan reaches "except Exception as e" in
\* start_creation_flow: Panel(f"Project creation failed: {e}")
ShowFailure ==
    /\ pc = "aborted"
    /\ ~\E n \in DOMAIN shown : shown[n].panel = "failed"
    /\ shown' = Append(shown, [panel |-> "failed", text |-> MsgCreationFailed \o error])
    /\ UNCHANGED <<confirmed, pc, file_i, dep_i, cmd_i, valid_msg, progress, result, error, dirs, disk, running, trace>>
    /\ UNCHANGED <<execution_plan, command, verdict, baseline>>
    /\ UNCHANGED parseVars
    /\ UNCHANGED deployVars
    /\ UNCHANGED loopVars

InitCreate ==
    /\ doc \in CreateDocs
    /\ response = Render(doc)
    /\ parse_pc = "call"
    /\ lines = <<>>
    /\ line_i = 0
    /\ current_section = "None"
    /\ log = <<>>
    /\ earlier = <<>>
    /\ execution_plan = EmptyPlan
    /\ ExecIdle
    /\ DeployIdle
    /\ LoopIdle
    /\ ValIdle

NextCreate == ParseBegin \/ ParseLine \/ ParseReturn \/ NextExec \/ ShowSuccess \/ ShowFailure

SpecCreate == InitCreate /\ [][NextCreate]_vars

(***************************************************************************)
(* Properties of _parse_plan                                               *)
(***************************************************************************)
\* // FILES, FILE: a/b.txt => hello, // DEPS, PKG: left-pad@1.0.0,
\* // COMMANDS, SHELL: echo hi
CanonicalText ==
    JoinLines(<< <<"/","/"," ","F","I","L","E","S">>,
                 <<"F","I","L","E",":"," ","a","/","b",".","t","x","t"," ","=",">"," ","h","e","l","l","o">>,
                 <<"/","/"," ","D","E","P","S">>,
                 <<"P","K","G",":"," ","l","e","f","t","-","p","a","d","@","1",".","0",".","0">>,
                 <<"/","/"," ","C","O","M","M","A","N","D","S">>,
                 <<"S","H","E","L","L",":"," ","e","c","h","o"," ","h","i">> >>)

CanonicalPlan ==
    [files |-> << [path |-> <<"a","/","b",".","t","x","t">>, content |-> <<"h","e","l","l","o">>] >>,
     dependencies |-> << <<"l","e","f","t","-","p","a","d","@","1",".","0",".","0">> >>,
     commands |-> << <<"e","c","h","o"," ","h","i">> >>]

\* C7: the plan parsed from a text of section markers, each followed by
\* well-formed entry lines of its tag, holds exactly the entries of the
\* text, list by list, in the order of the text, whatever the order of the
\* sections; the canonical text yields the canonical plan.
C7_WellFormedText ==
    parse_pc = "done" =>
        /\ execution_plan.files = EntriesOf(doc, MarkFiles)
        /\ execution_plan.dependencies = EntriesOf(doc, MarkDeps)
        /\ execution_plan.commands = EntriesOf(doc, MarkCommands)
        /\ response = CanonicalText => execution_plan = CanonicalPlan

\* the canonical text has been parsed
C7_Witness ==
    /\ parse_pc = "done"
    /\ response = CanonicalText
    /\ Len(execution_plan.files) = 1
    /\ Len(execution_plan.dependencies) = 1
    /\ Len(execution_plan.commands) = 1

\* C8: the plan _parse_plan leaves is a function of the text alone: it is
\* the plan an object fresh from __init__ gets from that text, and it equals
\* the plan of every earlier call on the same object that had the same text,
\* whatever was parsed in between.
C8_FunctionOfText ==
    parse_pc = "done" =>
        /\ execution_plan = ParsePlan(response).plan
        /\ \A k \in DOMAIN earlier :
              earlier[k].response = response => earlier[k].plan = execution_plan

\* a text parsed, another text parsed, the first text parsed again, both
\* with entries
C8_Witness ==
    /\ parse_pc = "done"
    /\ Len(earlier) = 3
    /\ earlier[1].response = earlier[3].response
    /\ earlier[2].response # earlier[1].response
    /\ earlier[1].plan.files # <<>>
    /\ earlier[2].plan.files # <<>>

\* current_section when the loop reaches line number k
SectionAt(k) == ParseLoop([section |-> "None", plan |-> EmptyPlan, log |-> <<>>], SubSeq(lines, 1, k - 1), 1).section

\* line number k is a FILE: line met in the FILES state without " => "
MalformedAt(k) ==
    /\ SectionAt(k) = "files"
    /\ startswith(strip(lines[k]), TagFile)
    /\ ~In(Separator, lines[k])

\* the lines without line number k
WithoutLine(k) == SubSeq(lines, 1, k - 1) \o SubSeq(lines, k + 1, Len(lines))

\* C9: a FILE: line met in the FILES state that lacks " => " adds no entry
\* and does not stop the parse: every line is processed and the plan is the
\* plan of the text without that line.
C9_MalformedLineSkipped ==
    parse_pc = "done" =>
        \A k \in 1..Len(lines) :
            MalformedAt(k) =>
                /\ line_i = Len(lines)
                /\ execution_plan = ParsePlan(JoinLines(WithoutLine(k))).plan

\* a malformed FILE: line followed by a well-formed one, which is in the plan
C9_Witness ==
    /\ parse_pc = "done"
    /\ Len(lines) = 3
    /\ MalformedAt(2)
    /\ In(Separator, lines[3])
    /\ Len(execution_plan.files) = 1

IsMarker(line) == startswith(line, MarkFiles) \/ startswith(line, MarkCommands) \/ startswith(line, MarkDeps)

\* the line carries the tag of the section
MatchesSection(line, section) ==
    \/ section = "files" /\ startswith(line, TagFile)
    \/ section = "commands" /\ startswith(line, TagShell)
    \/ section = "dependencies" /\ startswith(line, TagPkg)

\* C10: a turn of the loop adds an entry only to the list of the current
\* section and only for a line with the tag of that section; an entry line
\* met in state None or in another section, a line with no recognized tag
\* and a blank line add nothing and leave current_section as it is.
C10_EntriesOnlyInSection ==
    [][(parse_pc = "loop" /\ line_i' = line_i + 1) =>
          LET line == strip(lines[line_i + 1])
          IN  /\ execution_plan'.files # execution_plan.files =>
                    current_section = "files" /\ startswith(line, TagFile)
              /\ execution_plan'.commands # execution_plan.commands =>
                    current_section = "commands" /\ startswith(line, TagShell)
              /\ execution_plan'.dependencies # execution_plan.dependencies =>
                    current_section = "dependencies" /\ startswith(line, TagPkg)
              /\ (~IsMarker(line) /\ ~MatchesSection(line, current_section)) =>
                    /\ execution_plan' = execution_plan
                    /\ current_section' = current_section]_vars

\* a well-formed FILE: line met in the COMMANDS state has been passed over
C10_Witness ==
    /\ parse_pc = "loop"
    /\ line_i = 2
    /\ lines[1] = MarkCommands
    /\ startswith(lines[2], TagFile) /\ In(Separator, lines[2])
    /\ current_section = "commands"
    /\ execution_plan = EmptyPlan

\* the section a marker line names
MarkerOf(line) ==
    IF startswith(line, MarkFiles) THEN "files"
    ELSE IF startswith(line, MarkCommands) THEN "commands"
    ELSE "dependencies"

\* C11: _parse_plan enters its loop with current_section None; a line that
\* starts with a section marker sets current_section to the section of the
\* marker, whatever the section was and however often the marker was seen,
\* and adds no entry; no other line changes current_section.
C11_MarkerTransitions ==
    [][/\ (parse_pc = "call" /\ parse_pc' = "loop") => current_section' = "None"
       /\ (parse_pc = "loop" /\ line_i' = line_i + 1) =>
              LET line == strip(lines[line_i + 1])
              IN  /\ IsMarker(line) =>
                        /\ current_section' = MarkerOf(line)
                        /\ execution_plan' = execution_plan
                        /\ log' = log
                  /\ current_section' # current_section => IsMarker(line)]_vars

\* // FILES, // COMMANDS and // FILES again, the third marker line carrying
\* more text, have moved the parser to files, to commands and back to files
C11_Witness ==
    /\ parse_pc = "loop"
    /\ line_i = 3
    /\ lines[1] = MarkFiles
    /\ lines[2] = MarkCommands
    /\ lines[3] # MarkFiles /\ startswith(lines[3], MarkFiles)
    /\ current_section = "files"
    /\ execution_plan = EmptyPlan

\* the place loc lies inside the directory dir
Under(dir, loc) == loc # dir /\ startswith(loc, dir \o <<"/">>)

\* C12: every file the Files stage writes lies inside the project root, and
\* so does every directory it makes sure of, the root itself and the
\* directories the root lies in apart, whatever the paths of the plan.
C12_WritesInsideRoot ==
    /\ \A loc \in DOMAIN disk : Under(Root, loc)
    /\ \A d \in dirs : Under(Root, d) \/ d = Root \/ Under(d, Root)

\* C13: at most one child runs at any time; while a child runs the executor
\* waits for it, so that nothing is validated, started or written between a
\* spawn and its return; no child runs once _execute_plan has returned or
\* raised.
C13_OneChildAtATime ==
    /\ Cardinality(running) <= 1
    /\ running # {} => running = {Len(trace)} /\ pc \in {"dep_wait", "cmd_wait"}
    /\ \A k \in Spawned("deps") \cup Spawned("cmds") :
            k < Len(trace) =>
                /\ trace[k + 1].kind = "return"
                /\ trace[k + 1].stage = trace[k].stage
                /\ trace[k + 1].item = trace[k].item
    /\ pc \in {"completed", "aborted"} => running = {}

\* an install and a command have been spawned and _execute_plan has returned
C13_Witness ==
    /\ pc = "completed"
    /\ Spawned("deps") # {}
    /\ Spawned("cmds") # {}
    /\ running = {}

\* _execute_plan has done nothing: no directory, no file, no child, no
\* validate_command call, no progress task
NothingDone ==
    /\ pc = "start"
    /\ dirs = {}
    /\ disk = <<>>
    /\ running = {}
    /\ trace = <<>>
    /\ progress = <<>>

\* C14: _execute_plan runs only after the user has answered yes to the
\* confirmation; before the answer and after any other answer no project
\* directory has been created, no file written and no child spawned.
C14_OnlyAfterConfirm ==
    /\ ~NothingDone => confirmed = <<TRUE>>
    /\ confirmed = <<FALSE>> => NothingDone

\* the user has declined a plan that holds files, dependencies and commands
C14_Witness ==
    /\ confirmed = <<FALSE>>
    /\ execution_plan.files # <<>>
    /\ execution_plan.dependencies # <<>>
    /\ execution_plan.commands # <<>>
    /\ NothingDone

\* the items of the plan in plan order: the files, then the dependencies,
\* then the commands, each with what applying it writes or runs
PlanItems ==
    [k \in DOMAIN execution_plan.files |->
        [stage |-> "files", item |-> k, arg |-> Location[execution_plan.files[k].path]]]
    \o [k \in DOMAIN execution_plan.dependencies |->
        [stage |-> "deps", item |-> k, arg |-> InstallCommand(execution_plan.dependencies[k])]]
    \o [k \in DOMAIN execution_plan.commands |->
        [stage |-> "cmds", item |-> k, arg |-> execution_plan.commands[k]]]

\* a file written or a child started
IsStart(e) == e.ok /\ e.kind \in {"write", "spawn"}

\* a file written or a child that has ended
IsApplied(e) == (e.ok /\ e.kind = "write") \/ e.kind = "return"

\* the events es are the first of the items, one event for each item
PrefixOf(es, items) ==
    /\ Len(es) <= Len(items)
    /\ \A k \in DOMAIN es :
            /\ es[k].stage = items[k].stage
            /\ es[k].item = items[k].item
            /\ es[k].arg = items[k].arg

\* C15: at every point of an execution the items applied so far, and the
\* items begun so far, are the first items of files ++ dependencies ++
\* commands in that order, each once; a completed execution has applied all.
C15_AppliedPrefix ==
    trace # <<>> =>
        LET items == PlanItems
            applied == SelectSeq(trace, IsApplied)
            begun == SelectSeq(trace, IsStart)
        IN  /\ PrefixOf(applied, items)
            /\ PrefixOf(begun, items)
            /\ Len(begun) - Len(applied) = Cardinality(running)
            /\ pc = "completed" => Len(applied) = Len(items)

\* an execution has aborted at the second of two dependencies, after two
\* files and one install
C15_Witness ==
    /\ pc = "aborted"
    /\ Len(execution_plan.files) = 2
    /\ Len(execution_plan.dependencies) = 2
    /\ execution_plan.commands # <<>>
    /\ Len(SelectSeq(trace, IsApplied)) = 3

\* the text of a line after its tag
AfterTag(line, tag) == Slice(line, Len(tag))

\* the last entry of a list
Last(seq) == seq[Len(seq)]

\* C16: whenever a turn of the loop records an entry, each field recorded is
\* the text of the line after its tag (for a file: that text before and
\* after the first separator) with the white space at its two ends removed
\* and nothing else removed, whether or not a space follows the tag.
C16_FieldsAreTrimmedText ==
    [][(parse_pc = "loop" /\ line_i' = line_i + 1) =>
          LET line == strip(lines[line_i + 1])
          IN  /\ execution_plan'.commands # execution_plan.commands =>
                    Last(execution_plan'.commands) = strip(AfterTag(line, TagShell))
              /\ execution_plan'.dependencies # execution_plan.dependencies =>
                    Last(execution_plan'.dependencies) = strip(AfterTag(line, TagPkg))
              /\ execution_plan'.files # execution_plan.files =>
                    LET parts == split1(AfterTag(line, TagFile), Separator)
                    IN  /\ Len(parts) = 2
                        /\ Last(execution_plan'.files).path = strip(parts[1])
                        /\ Last(execution_plan'.files).content = strip(parts[2])]_vars

\* C17: a FILE: line met in section files adds exactly one file if the line
\* as given holds the separator and none if it does not; the path of the
\* file added is the text between the tag and the first separator and its
\* content is all the text after that separator, each trimmed; the content
\* may hold the separator and may be empty.
C17_FileIffSeparator ==
    [][(parse_pc = "loop" /\ line_i' = line_i + 1 /\ current_section = "files"
            /\ startswith(strip(lines[line_i + 1]), TagFile)) =>
          LET raw == lines[line_i + 1]
              parts == split1(AfterTag(lstrip(raw), TagFile), Separator)
          IN  IF In(Separator, raw)
              THEN /\ Len(execution_plan'.files) = Len(execution_plan.files) + 1
                   /\ SubSeq(execution_plan'.files, 1, Len(execution_plan.files)) = execution_plan.files
                   /\ Last(execution_plan'.files).path = strip(parts[1])
                   /\ Last(execution_plan'.files).content = strip(parts[2])
              ELSE execution_plan'.files = execution_plan.files]_vars

\* the last file of the plan with the path of file number k
LastWithPath(k) ==
    LET same == {j \in DOMAIN execution_plan.files : execution_plan.files[j].path = execution_plan.files[k].path}
    IN  CHOOSE j \in same : \A i \in same : i <= j

\* C18: the parsed plan holds every FILE entry of the text in the order of
\* the text, entries with the same path included; once the Files stage has
\* completed, the file at the location of each entry holds the content of
\* the last entry of the plan with that path.
C18_LastWriteWins ==
    /\ parse_pc = "done" => execution_plan.files = EntriesOf(doc, MarkFiles)
    /\ "deps" \in DOMAIN progress =>
            \A k \in DOMAIN execution_plan.files :
                LET loc == Location[execution_plan.files[k].path]
                IN  /\ loc \in DOMAIN disk
                    /\ disk[loc] = execution_plan.files[LastWithPath(k)].content

\* a text with hello and then bye for a/b.txt has been parsed, the two
\* entries are in the plan, the Files stage has completed and the file holds
\* bye
C18_Witness ==
    /\ "deps" \in DOMAIN progress
    /\ Len(execution_plan.files) >= 2
    /\ execution_plan.files[1] = DocFile1
    /\ execution_plan.files[2] = DocFile3
    /\ LastWithPath(1) = 2
    /\ disk[Location[DocFile1.path]] = DocFile3.content

\* C19: when a child ends, whatever its exit code, the executor counts the
\* item, goes on to the next item of the loop and raises nothing: every
\* variable but result takes the value it takes after exit code zero, so
\* that the rest of the execution and its outcome are the same.
C19_ExitCodeIgnored ==
    [][(pc = "dep_wait" \/ pc = "cmd_wait") =>
          /\ result' \in {<<0>>, <<1>>}
          /\ pc' = (IF pc = "dep_wait" THEN "deps" ELSE "cmds")
          /\ dep_i' = (IF pc = "dep_wait" THEN dep_i + 1 ELSE dep_i)
          /\ cmd_i' = (IF pc = "cmd_wait" THEN cmd_i + 1 ELSE cmd_i)
          /\ progress' = Advance(IF pc = "dep_wait" THEN "deps" ELSE "cmds")
          /\ error' = error
          /\ running' = {}
          /\ Len(trace') = Len(trace) + 1
          /\ UNCHANGED <<execution_plan, confirmed, shown, file_i, valid_msg, dirs, disk>>
          /\ trace'[Len(trace')] = [trace[Len(trace)] EXCEPT !.kind = "return"]]_vars

\* the first command has ended with exit code 1 and the second command runs
C19_Witness ==
    /\ pc = "cmd_wait"
    /\ cmd_i = 1
    /\ result = <<1>>

\* the list of the plan a progress task stands for
StageList(task) ==
    CASE task = "files" -> execution_plan.files
      [] task = "deps" -> execution_plan.dependencies
      [] task = "cmds" -> execution_plan.commands

\* the number of items of a stage applied so far: files written, children
\* that have ended
AppliedCount(task) == Cardinality({k \in DOMAIN trace : trace[k].stage = task /\ IsApplied(trace[k])})

\* C20: the completed count of each progress task is the number of items of
\* its stage applied so far and is at most its total, the length of the
\* list of the stage; after a completed execution completed = total for the
\* three tasks; after an abort the item that failed or was rejected is not
\* in the count.
C20_ProgressCounts ==
    /\ DOMAIN progress \subseteq {"files", "deps", "cmds"}
    /\ \A task \in DOMAIN progress :
            /\ progress[task].total = Len(StageList(task))
            /\ progress[task].completed = AppliedCount(task)
            /\ progress[task].completed <= progress[task].total
    /\ pc = "completed" =>
            /\ DOMAIN progress = {"files", "deps", "cmds"}
            /\ \A task \in DOMAIN progress : progress[task].completed = progress[task].total
    /\ pc = "aborted" =>
            \A task \in DOMAIN progress :
                progress[task].completed =
                    (CASE task = "files" -> file_i [] task = "deps" -> dep_i [] task = "cmds" -> cmd_i)

\* two files written and one command run, the second command rejected: the
\* execution has aborted with 2 of 2 files and 1 of 2 commands
C20_Witness ==
    /\ pc = "aborted"
    /\ "cmds" \in DOMAIN progress
    /\ progress["files"] = [completed |-> 2, total |-> 2]
    /\ progress["cmds"] = [completed |-> 1, total |-> 2]
    /\ ~trace[Len(trace)].ok
    /\ trace[Len(trace)].kind = "validate"

\* the malformed lines among the lines the loop has gone through
MalformedSoFar == {k \in 1..line_i : MalformedAt(k)}

\* C21: at every point of a parse the warnings logged so far are one for
\* each FILE: line met in the FILES state without the separator among the
\* lines gone through, and none for any other line; after the parse their
\* number is the number of such lines of the text.
C21_OneWarningPerMalformed ==
    parse_pc \in {"loop", "done"} =>
        /\ Len(log) = Cardinality(MalformedSoFar)
        /\ \A k \in MalformedSoFar : \E n \in DOMAIN log : log[n] = strip(lines[k])

\* _execute_plan has returned or has raised
Ended == pc = "completed" \/ pc = "aborted"

\* the entries of trace of a call that failed or rejected
Failed == {k \in DOMAIN trace : ~trace[k].ok}

\* C22: every execution that has been started ends, completed or aborted;
\* it ends completed exactly when every item of the three lists has been
\* applied and nothing has failed, and aborted exactly when a directory or
\* a file could not be made, a child could not be started or the validator
\* rejected a command; what failed is the last thing tried, no item is
\* tried twice, and an execution that has ended takes no further step.
C22_EndsCompletedOrAborted ==
    /\ (confirmed = <<TRUE>>) ~> Ended
    /\ [](pc = "completed" =>
            /\ error = None
            /\ Failed = {}
            /\ Len(SelectSeq(trace, IsApplied)) = Len(PlanItems))
    /\ [](pc = "aborted" =>
            /\ error # None
            /\ error = MsgOSError \/ (valid_msg # None /\ ~valid_msg[1] /\ error = valid_msg[2])
            /\ Failed \subseteq {Len(trace)}
            /\ Len(SelectSeq(trace, IsApplied)) < Len(PlanItems) \/ trace = <<>>)
    /\ [](~Ended => error = None /\ Failed = {})
    /\ [](\A j, k \in DOMAIN trace :
            (j # k /\ trace[j].stage = trace[k].stage /\ trace[j].item = trace[k].item)
                => trace[j].kind # trace[k].kind)
    /\ [][Ended => UNCHANGED vars]_vars

\* a plan of one file, one dependency and one command has been applied
\* whole and the execution has completed
C22_Witness ==
    /\ pc = "completed"
    /\ Len(SelectSeq(trace, IsApplied)) = 3
    /\ execution_plan.files # <<>>
    /\ execution_plan.dependencies # <<>>
    /\ execution_plan.commands # <<>>

\* the command string of an item of the plan
CommandOf(stage, item) ==
    IF stage = "deps" THEN NpmInstall \o execution_plan.dependencies[item]
    ELSE execution_plan.commands[item]

\* C23: the string of every child started is the string of the
\* validate_command call made just before it for the same item: the command
\* itself for a setup command, "npm install " followed by the package for a
\* dependency; so a package whose name holds a deny-list pattern is rejected
\* and never installed.
C23_SpawnedIsValidated ==
    /\ \A k \in DOMAIN trace :
            /\ trace[k].kind = "validate" => trace[k].arg = CommandOf(trace[k].stage, trace[k].item)
            /\ trace[k].kind = "spawn" =>
                    /\ trace[k].arg = CommandOf(trace[k].stage, trace[k].item)
                    /\ k > 1
                    /\ trace[k - 1].kind = "validate"
                    /\ trace[k - 1].stage = trace[k].stage
                    /\ trace[k - 1].item = trace[k].item
                    /\ trace[k - 1].arg = trace[k].arg
    /\ \A k \in EventsOf("validate", "deps") :
            DenyListHit(execution_plan.dependencies[trace[k].item]) =>
                /\ ~trace[k].ok
                /\ pc = "aborted"
                /\ trace[k].item \notin SpawnedItems("deps")

\* left-pad@1.0.0 has been installed by the string that was validated, and
\* the package add, whose name holds the pattern dd, has been rejected
C23_Witness ==
    /\ pc = "aborted"
    /\ execution_plan.dependencies = << <<"l","e","f","t","-","p","a","d","@","1",".","0",".","0">>, <<"a","d","d">> >>
    /\ SpawnedItems("deps") = {1}
    /\ ~trace[Len(trace)].ok
    /\ trace[Len(trace)].arg = <<"n","p","m"," ","i","n","s","t","a","l","l"," ","a","d","d">>

\* C24: the success panel is shown only after _execute_plan has gone
\* through its three stages with no failure; after an abort the failure
\* panel is shown with the reason of the abort, and the success panel is
\* not shown in that run; a run shows at most one panel.
C24_SuccessOnlyWhenCompleted ==
    /\ Len(shown) <= 1
    /\ \A n \in DOMAIN shown :
            /\ shown[n].panel = "success" =>
                    /\ pc = "completed"
                    /\ error = None
                    /\ Failed = {}
                    /\ Len(SelectSeq(trace, IsApplied)) = Len(PlanItems)
            /\ shown[n].panel = "failed" =>
                    /\ pc = "aborted"
                    /\ shown[n].text = MsgCreationFailed \o error
    /\ pc = "aborted" => \A n \in DOMAIN shown : shown[n].panel # "success"
    /\ confirmed # <<TRUE>> => shown = <<>>

\* the install of add was rejected after a file had been written: the
\* failure panel carries the validator's reason and is the only panel
C24_Witness ==
    /\ pc = "aborted"
    /\ Written # {}
    /\ valid_msg # None
    /\ ~valid_msg[1]
    /\ shown = <<[panel |-> "failed", text |-> MsgCreationFailed \o valid_msg[2]]>>

(***************************************************************************)
(* Deployer.deploy_project: SpecDeploy                                     *)
(*                                                                         *)
(* The path given, whether it is a directory and the two answers of the    *)
(* user are fixed at the start; one action builds the command list, then   *)
(* one action for each validate_command call, each spawn and each return,  *)
(* and one for each way deploy_project ends.                               *)
(***************************************************************************)
DeployPaths == { <<"a","p","p">>, <<"a","d","d">> }

\* choices=["production", "staging", "development"]
DeployEnvs ==
    { <<"p","r","o","d","u","c","t","i","o","n">>,
      <<"s","t","a","g","i","n","g">>,
      <<"d","e","v","e","l","o","p","m","e","n","t">> }

\* the answers to "Enter any additional deployment instructions (optional):"
DeployInstructions == { <<>>, <<"l","s">>, <<"S","U","D","O"," ","r","e","b","o","o","t">> }

\* deployment_commands = [f"cd {project_path}", "npm run build",
\* f"deploy --env {env}"], and the additional instructions if there are any
DeployCommands(in) ==
    << <<"c","d"," ">> \o in.project_path,
       <<"n","p","m"," ","r","u","n"," ","b","u","i","l","d">>,
       <<"d","e","p","l","o","y"," ","-","-","e","n","v"," ">> \o in.env >>
    \o (IF in.additional_instructions # <<>> THEN <<in.additional_instructions>> ELSE <<>>)

DeployInputs ==
    [project_path : DeployPaths, isdir : BOOLEAN, env : DeployEnvs, additional_instructions : DeployInstructions]

\* validate_command on each string deploy_project may hand to it, computed once
DeployValidated ==
    [c \in UNION {{DeployCommands(in)[k] : k \in DOMAIN DeployCommands(in)} : in \in DeployInputs}
        |-> validate_command(c)]

MsgPathNotFound == <<"Project path not found: ">>

MsgDeployError == <<"Error during deployment: ">>

\* an entry of deploy_trace
DeployEvent(kind, item, arg, ok) == [kind |-> kind, item |-> item, arg |-> arg, ok |-> ok]

InitDeploy ==
    /\ deploy_in \in DeployInputs
    /\ deploy_pc = "call"
    /\ deployment_commands = <<>>
    /\ deploy_i = 0
    /\ deploy_error = None
    /\ deploy_trace = <<>>
    /\ deploy_shown = <<>>
    /\ execution_plan = EmptyPlan
    /\ ExecIdle
    /\ ParseIdle
    /\ ValIdle
    /\ LoopIdle

\* if not os.path.isdir(project_path): print and return; else the two
\* questions are asked and the list is built
DeployBegin ==
    /\ deploy_pc = "call"
    /\ IF deploy_in.isdir
       THEN /\ deployment_commands' = DeployCommands(deploy_in)
            /\ deploy_pc' = "loop"
            /\ UNCHANGED deploy_shown
       ELSE /\ deploy_shown' = Append(deploy_shown, [kind |-> "not found", text |-> MsgPathNotFound \o deploy_in.project_path])
            /\ deploy_pc' = "returned"
            /\ UNCHANGED deployment_commands
    /\ UNCHANGED <<deploy_in, deploy_i, deploy_error, deploy_trace>>
    /\ UNCHANGED <<execution_plan, valVars, parseVars, execVars, loopVars>>

\* a loop that runs every command whatever validate_command says
DeployMayRunUnchecked(vm) == TRUE

\* "if not valid: raise" did not raise, in deploy_project
DeployMayRun(vm) == vm[1]

\* valid, msg = SecurityManager.validate_command(cmd)
DeployValidate ==
    /\ deploy_pc = "loop"
    /\ deploy_i < Len(deployment_commands)
    /\ LET cmd == deployment_commands[deploy_i + 1]
           vm == DeployValidated[cmd]
       IN  /\ deploy_trace' = Append(deploy_trace, DeployEvent("validate", deploy_i + 1, cmd, vm[1]))
           /\ IF DeployMayRun(vm)
              THEN deploy_pc' = "run" /\ UNCHANGED deploy_error
              ELSE deploy_pc' = "raised" /\ deploy_error' = vm[2]
    /\ UNCHANGED <<deploy_in, deployment_commands, deploy_i, deploy_shown>>
    /\ UNCHANGED <<execution_plan, valVars, parseVars, execVars, loopVars>>

\* subprocess.run(cmd, shell=True, cwd=project_path) starts the child
DeploySpawn ==
    /\ deploy_pc = "run"
    /\ LET cmd == deployment_commands[deploy_i + 1]
       IN  \/ /\ deploy_trace' = Append(deploy_trace, DeployEvent("spawn", deploy_i + 1, cmd, TRUE))
              /\ deploy_pc' = "wait"
              /\ UNCHANGED deploy_error
           \/ \* the shell cannot be started
              /\ deploy_trace' = Append(deploy_trace, DeployEvent("spawn", deploy_i + 1, cmd, FALSE))
              /\ deploy_error' = MsgOSError
              /\ deploy_pc' = "raised"
    /\ UNCHANGED <<deploy_in, deployment_commands, deploy_i, deploy_shown>>
    /\ UNCHANGED <<execution_plan, valVars, parseVars, execVars, loopVars>>

\* the child ends, with any exit code, and the loop takes the next command
DeployReturn ==
    /\ deploy_pc = "wait"
    /\ deploy_trace' = Append(deploy_trace, DeployEvent("return", deploy_i + 1, deployment_commands[deploy_i + 1], TRUE))
    /\ deploy_i' = deploy_i + 1
    /\ deploy_pc' = "loop"
    /\ UNCHANGED <<deploy_in, deployment_commands, deploy_error, deploy_shown>>
    /\ UNCHANGED <<execution_plan, valVars, parseVars, execVars, loopVars>>

\* after the loop: the success panel and the list of the commands run
DeploySuccess ==
    /\ deploy_pc = "loop"
    /\ deploy_i >= Len(deployment_commands)
    /\ deploy_shown' = Append(deploy_shown, [kind |-> "success", text |-> deploy_in.env])
    /\ deploy_pc' = "returned"
    /\ UNCHANGED <<deploy_in, deployment_commands, deploy_i, deploy_error, deploy_trace>>
    /\ UNCHANGED <<execution_plan, valVars, parseVars, execVars, loopVars>>

\* except Exception as e: print(f"Error during deployment: {e}")
DeployFailure ==
    /\ deploy_pc = "raised"
    /\ deploy_shown' = Append(deploy_shown, [kind |-> "error", text |-> MsgDeployError \o deploy_error])
    /\ deploy_pc' = "returned"
    /\ UNCHANGED <<deploy_in, deployment_commands, deploy_i, deploy_error, deploy_trace>>
    /\ UNCHANGED <<execution_plan, valVars, parseVars, execVars, loopVars>>

NextDeploy ==
    \/ DeployBegin
    \/ DeployValidate
    \/ DeploySpawn
    \/ DeployReturn
    \/ DeploySuccess
    \/ DeployFailure

SpecDeploy == InitDeploy /\ [][NextDeploy]_vars

\* the entries of deploy_trace of one kind
DeployEventsOf(kind) == {k \in DOMAIN deploy_trace : deploy_trace[k].kind = kind}

\* the positions of the list whose command has been run
DeployRun == {deploy_trace[k].item : k \in {j \in DeployEventsOf("spawn") : deploy_trace[j].ok}}

\* C25: every command of the deployment list, the additional instruction
\* of the user included, is run only right after validate_command has
\* accepted that same string, and the commands are taken in list order;
\* when a command is rejected nothing is validated or run after it, the
\* commands before it have been run and nothing undoes them, the error is
\* printed and the success panel is not.
C25_DeployValidatesEachCommand ==
    /\ \A k \in DOMAIN deploy_trace :
            /\ deploy_trace[k].arg = deployment_commands[deploy_trace[k].item]
            /\ deploy_trace[k].kind = "validate" =>
                    /\ deploy_trace[k].item = Cardinality({j \in DeployEventsOf("validate") : j < k}) + 1
                    /\ DeployRun \cap (1..(deploy_trace[k].item - 1)) = 1..(deploy_trace[k].item - 1)
            /\ deploy_trace[k].kind = "spawn" =>
                    /\ k > 1
                    /\ deploy_trace[k - 1].kind = "validate"
                    /\ deploy_trace[k - 1].item = deploy_trace[k].item
                    /\ deploy_trace[k - 1].ok
                    /\ ~DenyListHit(deploy_trace[k].arg)
            /\ (deploy_trace[k].kind = "validate" /\ ~deploy_trace[k].ok) =>
                    /\ k = Len(deploy_trace)
                    /\ DenyListHit(deploy_trace[k].arg)
                    /\ DeployRun = 1..(deploy_trace[k].item - 1)
                    /\ deploy_pc \in {"raised", "returned"}
                    /\ \A n \in DOMAIN deploy_shown : deploy_shown[n].kind # "success"
                    /\ deploy_pc = "returned" =>
                            deploy_shown = <<[kind |-> "error", text |-> MsgDeployError \o MsgDangerous \o deploy_trace[k].arg]>>
    /\ \A n \in DOMAIN deploy_shown :
            deploy_shown[n].kind = "success" =>
                /\ DeployRun = DOMAIN deployment_commands
                /\ \A k \in DOMAIN deploy_trace : deploy_trace[k].ok

\* the additional instruction SUDO reboot has been rejected after the three
\* commands before it were run, and the error has been printed
C25_Witness ==
    /\ deploy_pc = "returned"
    /\ Len(deployment_commands) = 4
    /\ DeployRun = {1, 2, 3}
    /\ ~deploy_trace[Len(deploy_trace)].ok
    /\ deploy_trace[Len(deploy_trace)].arg = deploy_in.additional_instructions
    /\ Len(deploy_shown) = 1
    /\ deploy_shown[1].kind = "error"

(***************************************************************************)
(* CommandInterface.run: SpecLoop                                          *)
(*                                                                         *)
(* One action for the prompt, one for _handle_command, and for /create     *)
(* one for start_creation_flow and one for the statement after it.         *)
(***************************************************************************)
\* the most prompts of a run of SpecLoop
MaxTurns == 3

Quit == <<"/","q","u","i","t">>

Create == <<"/","c","r","e","a","t","e">>

\* the lines the user may enter
LoopInputs ==
    { <<"/","q","u","i","t">>,
      <<" ","/","q","u","i","t"," ">>,
      <<"/","Q","U","I","T">>,
      <<"/","q","u","i","t"," ","n","o","w">>,
      <<"/","c","r","e","a","t","e">>,
      <<"/","C","r","e","a","t","e"," ","a","p","p">>,
      <<"/","s","t","a","t","u","s">>,
      <<"h","e","l","l","o">>,
      <<" "," ">> }

\* the names the user may give to a project
ProjectNames == { <<"s","h","o","p">>, <<"b","l","o","g">> }

\* the name when the question was cancelled: None
PyNone == <<"None">>

Unknown == <<"U","n","k","n","o","w","n">>

\* command.split()[0] of a command that is stripped and not empty
RECURSIVE FirstWord(_)
FirstWord(s) ==
    IF s = <<>> \/ Head(s) \in Whitespace THEN <<>> ELSE <<Head(s)>> \o FirstWord(Tail(s))

\* config.get('name', 'Unknown'), config being <<>> or holding a name
GetName(config) == IF config = <<>> THEN Unknown ELSE config[1]

\* what the except clauses of run print
Report(exception) ==
    IF exception = "KeyboardInterrupt" THEN <<"Operation cancelled.">> ELSE <<"Error: ", exception>>

InitLoop ==
    /\ loop_pc = "prompt"
    /\ command_line = None
    /\ turns = 0
    /\ project_config = None
    /\ collected = None
    /\ status_info = None
    /\ raised = <<>>
    /\ console = <<>>
    /\ execution_plan = EmptyPlan
    /\ ExecIdle
    /\ ParseIdle
    /\ ValIdle
    /\ DeployIdle

\* command = self.session.prompt(...).strip(), "if not command: continue",
\* "if command == '/quit': break"
Prompt ==
    /\ loop_pc = "prompt"
    /\ turns < MaxTurns
    /\ turns' = turns + 1
    /\ \/ \E text \in LoopInputs :
            /\ command_line' = strip(text)
            /\ loop_pc' = (IF strip(text) = <<>> THEN "prompt"
                           ELSE IF strip(text) = Quit THEN "ended"
                           ELSE "dispatch")
            /\ UNCHANGED <<raised, console>>
       \/ \* the prompt is interrupted or raises
          \E exception \in {"KeyboardInterrupt", "EOFError"} :
            /\ raised' = Append(raised, exception)
            /\ console' = Append(console, Report(exception))
            /\ UNCHANGED <<loop_pc, command_line>>
    /\ UNCHANGED <<project_config, collected, status_info>>
    /\ UNCHANGED <<execution_plan, valVars, parseVars, execVars, deployVars>>

\* an architect that lives through the commands
KeptConfig(config) == config

\* architect = ProjectArchitect(): self.project_config = {}
FreshConfig(config) == <<>>

\* self._handle_command(command): the handler of the first word, lower-cased,
\* or the help table
HandleCommand ==
    /\ loop_pc = "dispatch"
    /\ IF lower(FirstWord(command_line)) = Create
       THEN /\ project_config' = FreshConfig(project_config)
            /\ collected' = None
            /\ loop_pc' = "create"
            /\ UNCHANGED <<raised, console>>
       ELSE /\ loop_pc' = "prompt"
            /\ \/ UNCHANGED <<raised, console>>
               \/ \E exception \in {"KeyboardInterrupt", "Exception"} :
                    /\ raised' = Append(raised, exception)
                    /\ console' = Append(console, Report(exception))
            /\ UNCHANGED <<project_config, collected>>
    /\ UNCHANGED <<command_line, turns, status_info>>
    /\ UNCHANGED <<execution_plan, valVars, parseVars, execVars, deployVars>>

\* architect.start_creation_flow(): the name is asked first; the function
\* catches every Exception itself, an interrupt goes through it
CreationFlow ==
    /\ loop_pc = "create"
    /\ \/ \E name \in ProjectNames \cup {PyNone} :
            /\ project_config' = <<name>>
            /\ collected' = <<name>>
            /\ loop_pc' = "create_end"
            /\ UNCHANGED <<raised, console>>
       \/ \* an exception before the name is stored, caught inside
          /\ loop_pc' = "create_end"
          /\ UNCHANGED <<project_config, collected, raised, console>>
       \/ \* an interrupt outside the questions
          /\ raised' = Append(raised, "KeyboardInterrupt")
          /\ console' = Append(console, Report("KeyboardInterrupt"))
          /\ loop_pc' = "prompt"
          /\ UNCHANGED <<project_config, collected>>
    /\ UNCHANGED <<command_line, turns, status_info>>
    /\ UNCHANGED <<execution_plan, valVars, parseVars, execVars, deployVars>>

\* self.status_info['last_created_project'] = architect.project_config.get('name', 'Unknown')
CreateEnd ==
    /\ loop_pc = "create_end"
    /\ status_info' = <<GetName(project_config)>>
    /\ loop_pc' = "prompt"
    /\ UNCHANGED <<command_line, turns, project_config, collected, raised, console>>
    /\ UNCHANGED <<execution_plan, valVars, parseVars, execVars, deployVars>>

NextLoop == Prompt \/ HandleCommand \/ CreationFlow \/ CreateEnd

SpecLoop == InitLoop /\ [][NextLoop]_vars

\* C26: the loop ends only at the prompt, on the command /quit, and that
\* command ends it; every exception or interrupt that reaches the loop is
\* reported and the loop goes back to the prompt; last_created_project is
\* written only by the statement after start_creation_flow of a /create,
\* with the name collected in that run, or Unknown when none was collected.
C26_LoopEndsOnQuitOnly ==
    [][/\ (loop_pc' = "ended" /\ loop_pc # "ended") => (loop_pc = "prompt" /\ command_line' = Quit)
       /\ (loop_pc = "prompt" /\ turns' = turns + 1 /\ raised' = raised /\ command_line' = Quit) => loop_pc' = "ended"
       /\ raised' # raised =>
              /\ Len(raised') = Len(raised) + 1
              /\ console' = Append(console, Report(raised'[Len(raised')]))
              /\ loop_pc' = "prompt"
              /\ status_info' = status_info
       /\ console' # console => raised' # raised
       /\ loop_pc = "create_end" => status_info' = <<GetName(collected)>>
       /\ status_info' # status_info =>
              /\ loop_pc = "create_end"
              /\ lower(FirstWord(command_line)) = Create]_vars

\* a /create has recorded the name of its run, a later command has raised
\* and has been reported, and the loop has ended on /quit
C26_Witness ==
    /\ loop_pc = "ended"
    /\ command_line = Quit
    /\ status_info # None
    /\ status_info[1] \in ProjectNames
    /\ raised # <<>>
    /\ Len(console) = Len(raised)

=============================================================================
